---- MODULE Spec2Model ----
(***************************************************************************)
(* CVXcanon: affine coefficient extraction (LinearExpression.cpp) and the  *)
(* linear cone transform (LinearConeTransform.cpp).                        *)
(*                                                                         *)
(* All indices are 0-based, as in the C++ code.  A matrix is a record      *)
(* [rows, cols, val] with val a function on (0..rows-1) \X (0..cols-1);    *)
(* the values are integers standing for the doubles of the code.           *)
(***************************************************************************)
EXTENDS Integers, Sequences, FiniteSets, TLC

\* ------------------------------------------------------------------ bounds
\* Largest number of operator nodes stacked above a leaf.
MaxDepth == 2
\* Largest dim() of a stacked, multiplied or diagonal expression the caller builds.
MaxDim == 4
\* Largest number of constraints of a Problem handed to transform.
MaxConstraints == 1
\* Largest number of rows, and of columns, of a transposed leaf.
MaxSide == 3

\* --------------------------------------------------------- matrix kernel
Idx(n) == 0 .. (n - 1)

Cells(r, c) == Idx(r) \X Idx(c)

Mat(r, c, f) == [rows |-> r, cols |-> c, val |-> f]

RECURSIVE TripletSum(_, _, _)
TripletSum(T, i, j) ==
  IF T = <<>> THEN 0
  ELSE (IF Head(T)[1] = i /\ Head(T)[2] = j THEN Head(T)[3] ELSE 0)
       + TripletSum(Tail(T), i, j)

\* setFromTriplets: duplicate entries are summed.
sparse_matrix(r, c, T) ==
  Mat(r, c, [p \in Cells(r, c) |-> TripletSum(T, p[1], p[2])])

identity(n) == Mat(n, n, [p \in Cells(n, n) |-> IF p[1] = p[2] THEN 1 ELSE 0])

ones_matrix(r, c) == Mat(r, c, [p \in Cells(r, c) |-> 1])

scalar_matrix(v, n) ==
  Mat(n, n, [p \in Cells(n, n) |-> IF p[1] = p[2] THEN v ELSE 0])

RECURSIVE Dot(_, _, _, _, _)
Dot(A, B, i, j, k) ==
  IF k = 0 THEN 0
  ELSE A.val[<<i, k - 1>>] * B.val[<<k - 1, j>>] + Dot(A, B, i, j, k - 1)

\* lhs * rhs, defined when lhs.cols = rhs.rows.
MatMul(A, B) ==
  Mat(A.rows, B.cols, [p \in Cells(A.rows, B.cols) |-> Dot(A, B, p[1], p[2], A.cols)])

MatAdd(A, B) ==
  Mat(A.rows, A.cols, [p \in Cells(A.rows, A.cols) |-> A.val[p] + B.val[p]])

\* Column-major flattening of a dense matrix into a (rows*cols) x 1 vector:
\* entry (i, j) goes to position j*rows + i.
to_vector(D) ==
  Mat(D.rows * D.cols, 1,
      [p \in Cells(D.rows * D.cols, 1) |-> D.val[<<p[1] % D.rows, p[1] \div D.rows>>]])

NNZ(A) == Cardinality({p \in Cells(A.rows, A.cols) : A.val[p] # 0})

\* ------------------------------------------------------------ expressions
kConstCoefficientId == -1

NoData == Mat(0, 0, <<>>)

NoAttr == [id |-> 0, shape |-> <<0, 0>>, data |-> NoData, keys |-> <<>>, p |-> 0]

Expression(type, args, attr) == [type |-> type, args |-> args, attr |-> attr]

var(id, r, c) == Expression("VAR", <<>>, [NoAttr EXCEPT !.id = id, !.shape = <<r, c>>])

const(D) == Expression("CONST", <<>>, [NoAttr EXCEPT !.data = D])

\* constant(value): a 1x1 constant.
constant(v) == const(Mat(1, 1, [p \in Cells(1, 1) |-> v]))

neg(x) == Expression("NEG", <<x>>, NoAttr)

add(x, y) == Expression("ADD", <<x, y>>, NoAttr)

mul(x, y) == Expression("MUL", <<x, y>>, NoAttr)

sum_entries(x) == Expression("SUM_ENTRIES", <<x>>, NoAttr)

hstack(xs) == Expression("HSTACK", xs, NoAttr)

vstack(xs) == Expression("VSTACK", xs, NoAttr)

transpose(x) == Expression("TRANSPOSE", <<x>>, NoAttr)

diag_vec(x) == Expression("DIAG_VEC", <<x>>, NoAttr)

diag_mat(x) == Expression("DIAG_MAT", <<x>>, NoAttr)

reshape(x, r, c) == Expression("RESHAPE", <<x>>, [NoAttr EXCEPT !.shape = <<r, c>>])

\* keys[1] is the row slice, keys[2] the column slice; a slice is <<start, stop, step>>.
index(x, rs, cs) == Expression("INDEX", <<x>>, [NoAttr EXCEPT !.keys = <<rs, cs>>])

abs(x) == Expression("ABS", <<x>>, NoAttr)

p_norm(x, p) == Expression("P_NORM", <<x>>, [NoAttr EXCEPT !.p = p])

quad_over_lin(x, y) == Expression("QUAD_OVER_LIN", <<x, y>>, NoAttr)

leq(x, y) == Expression("LEQ", <<x, y>>, NoAttr)

soc(x, y) == Expression("SOC", <<x, y>>, NoAttr)

\* ----------------------------------------------------------- shape oracle
Normalize(v, n) == IF v < 0 THEN n + v ELSE v

\* The indices a slice selects: start, start+step, ... strictly before stop
\* in the direction of the step (start and stop already normalized).
RECURSIVE SliceSeq(_, _, _)
SliceSeq(cur, stop, step) ==
  IF (step > 0 /\ cur >= stop) \/ (step < 0 /\ cur <= stop) \/ step = 0 THEN <<>>
  ELSE <<cur>> \o SliceSeq(cur + step, stop, step)

SliceSelection(sl, n) == SliceSeq(Normalize(sl[1], n), Normalize(sl[2], n), sl[3])

RECURSIVE SumDims(_, _, _)
RECURSIVE size(_)
SumDims(args, d, i) ==
  IF i = 0 THEN 0 ELSE size(args[i])[d] + SumDims(args, d, i - 1)

size(expr) ==
  LET t == expr.type
      a(i) == size(expr.args[i])
  IN CASE t = "VAR" -> expr.attr.shape
       [] t = "CONST" -> <<expr.attr.data.rows, expr.attr.data.cols>>
       [] t = "RESHAPE" -> expr.attr.shape
       [] t \in {"NEG", "ABS"} -> a(1)
       [] t \in {"SUM_ENTRIES", "P_NORM", "QUAD_OVER_LIN"} -> <<1, 1>>
       [] t = "ADD" -> IF a(1)[1] * a(1)[2] = 1 THEN a(2) ELSE a(1)
       [] t = "MUL" -> IF a(1)[1] * a(1)[2] = 1 THEN a(2)
                       ELSE IF a(2)[1] * a(2)[2] = 1 THEN a(1)
                       ELSE <<a(1)[1], a(2)[2]>>
       [] t = "HSTACK" -> <<a(1)[1], SumDims(expr.args, 2, Len(expr.args))>>
       [] t = "VSTACK" -> <<SumDims(expr.args, 1, Len(expr.args)), a(1)[2]>>
       [] t = "TRANSPOSE" -> <<a(1)[2], a(1)[1]>>
       [] t = "DIAG_VEC" -> <<a(1)[1], a(1)[1]>>
       [] t = "DIAG_MAT" -> <<a(1)[1], 1>>
       [] t = "INDEX" -> <<Len(SliceSelection(expr.attr.keys[1], a(1)[1])),
                           Len(SliceSelection(expr.attr.keys[2], a(1)[2]))>>
       [] OTHER -> <<1, 1>>

dim(expr) == size(expr)[1] * size(expr)[2]

\* ----------------------------------------------- coefficient constructors
NonZero(t) == t[3] # 0

is_constant(coeffs) ==
  kConstCoefficientId \in DOMAIN coeffs /\ Cardinality(DOMAIN coeffs) = 1

get_add_coefficients(expr) ==
  [i \in 1 .. Len(expr.args) |->
     IF dim(expr.args[i]) = 1 THEN ones_matrix(dim(expr), 1) ELSE identity(dim(expr))]

\* Loop order: curr_block, then the block's columns, then the rows of a column;
\* only the nonzeros of the block are visited.
get_left_mul_coefficients(expr, block) ==
  LET block_rows == block.rows
      block_cols == block.cols
      num_blocks == size(expr)[2]
      per == block_rows * block_cols
      visit(t) ==
        LET curr_block == t \div per
            k == (t % per) \div block_rows
            r == (t % per) % block_rows
        IN <<curr_block * block_rows + r, curr_block * block_cols + k, block.val[<<r, k>>]>>
      tripletList == SelectSeq([t \in 1 .. num_blocks * per |-> visit(t - 1)], NonZero)
  IN <<sparse_matrix(num_blocks * block_rows, num_blocks * block_cols, tripletList)>>

\* Loop order: the constant's columns, the rows of a column, then i in [0, n).
get_right_mul_coefficients(expr, constant_) ==
  LET rows == constant_.rows
      cols == constant_.cols
      n == size(expr)[1]
      visit(t) ==
        LET e == t \div n
            i == t % n
            k == e \div rows
            r == e % rows
        IN <<k * n + i, r * n + i, constant_.val[<<r, k>>]>>
      tripletList == SelectSeq([t \in 1 .. rows * cols * n |-> visit(t - 1)], NonZero)
  IN <<sparse_matrix(cols * n, rows * n, tripletList)>>

get_neg_coefficients(expr) == <<scalar_matrix(-1, dim(expr))>>

get_sum_entries_coefficients(expr) == <<ones_matrix(1, dim(expr.args[1]))>>

RECURSIVE StackOffset(_, _, _)
\* The value of offset when the loop reaches argument k (1-based).
StackOffset(expr, vertical, k) ==
  IF k = 1 THEN 0
  ELSE StackOffset(expr, vertical, k - 1)
       + (IF vertical THEN size(expr.args[k - 1])[1] ELSE dim(expr.args[k - 1]))

get_stack_coefficients(expr, vertical) ==
  [k \in 1 .. Len(expr.args) |->
     LET arg == expr.args[k]
         arg_size == size(arg)
         column_offset == IF vertical THEN size(expr)[1] ELSE arg_size[1]
         offset == StackOffset(expr, vertical, k)
         visit(t) ==
           LET i == t \div arg_size[2]
               j == t % arg_size[2]
           IN <<i + (j * column_offset) + offset, i + (j * arg_size[1]), 1>>
         arg_coeffs == [t \in 1 .. arg_size[1] * arg_size[2] |-> visit(t - 1)]
     IN sparse_matrix(dim(expr), dim(arg), arg_coeffs)]

get_hstack_coefficients(expr) == get_stack_coefficients(expr, FALSE)

get_vstack_coefficients(expr) == get_stack_coefficients(expr, TRUE)

get_reshape_coefficients(expr) == <<identity(dim(expr))>>

get_diag_mat_coefficients(expr) ==
  LET rows == size(expr)[1]
      tripletList == [t \in 1 .. rows |-> <<t - 1, (t - 1) * rows + (t - 1), 1>>]
  IN <<sparse_matrix(rows, rows * rows, tripletList)>>

\* A DIAG_VEC constructor that sizes its matrix as the argument, (rows, rows),
\* and not as the result.
get_diag_vec_coefficients_as_arg(expr) ==
  LET rows == size(expr)[1]
      tripletList == [t \in 1 .. rows |-> <<t - 1, t - 1, 1>>]
  IN <<sparse_matrix(rows, rows, tripletList)>>

get_diag_vec_coefficients(expr) ==
  LET rows == size(expr)[1]
      tripletList == [t \in 1 .. rows |-> <<(t - 1) * rows + (t - 1), t - 1, 1>>]
  IN <<sparse_matrix(rows * rows, rows, tripletList)>>

\* A TRANSPOSE constructor that reads rows and cols from its argument's shape.
get_transpose_coefficients_of_arg(expr) ==
  LET rows == size(expr.args[1])[1]
      cols == size(expr.args[1])[2]
      visit(t) ==
        LET i == t \div cols
            j == t % cols
        IN <<rows * j + i, i * cols + j, 1>>
      tripletList == [t \in 1 .. rows * cols |-> visit(t - 1)]
  IN <<sparse_matrix(rows * cols, rows * cols, tripletList)>>

\* A TRANSPOSE constructor that leaves the entries where they are.
get_transpose_coefficients_unpermuted(expr) == <<identity(dim(expr))>>

get_transpose_coefficients(expr) ==
  LET rows == size(expr)[1]
      cols == size(expr)[2]
      visit(t) ==
        LET i == t \div cols
            j == t % cols
        IN <<rows * j + i, i * cols + j, 1>>
      tripletList == [t \in 1 .. rows * cols |-> visit(t - 1)]
  IN <<sparse_matrix(rows * cols, rows * cols, tripletList)>>

\* The inner while loop of get_index_coefficients (lines 168-181).
RECURSIVE IndexRowLoop(_, _, _, _, _, _, _)
IndexRowLoop(rows, row_stop, row_step, col, row, counter, tripletList) ==
  IF row < 0 \/ row >= rows THEN [list |-> tripletList, counter |-> counter]
  ELSE LET pushed == Append(tripletList, <<counter, col * rows + row, 1>>)
           next_row == row + row_step
       IN IF (row_step > 0 /\ next_row >= row_stop) \/ (row_step < 0 /\ next_row < row_stop)
          THEN [list |-> pushed, counter |-> counter + 1]
          ELSE IndexRowLoop(rows, row_stop, row_step, col, next_row, counter + 1, pushed)

\* The outer while loop of get_index_coefficients (lines 163-187).
RECURSIVE IndexColLoop(_, _, _, _, _, _, _, _, _, _)
IndexColLoop(rows, cols, row_start, row_stop, row_step, col_stop, col_step, col, counter, tripletList) ==
  IF col < 0 \/ col >= cols THEN tripletList
  ELSE LET inner == IndexRowLoop(rows, row_stop, row_step, col, row_start, counter, tripletList)
           next_col == col + col_step
       IN IF (col_step > 0 /\ next_col >= col_stop) \/ (col_step < 0 /\ next_col < col_stop)
          THEN inner.list
          ELSE IndexColLoop(rows, cols, row_start, row_stop, row_step, col_stop, col_step,
                            next_col, inner.counter, inner.list)

IndexTriplets(expr) ==
  LET rows == size(expr.args[1])[1]
      cols == size(expr.args[1])[2]
      rs == expr.attr.keys[1]
      cs == expr.attr.keys[2]
      row_start == IF rs[1] < 0 THEN rows + rs[1] ELSE rs[1]
      row_stop == IF rs[2] < 0 THEN rows + rs[2] ELSE rs[2]
      col_start == IF cs[1] < 0 THEN cols + cs[1] ELSE cs[1]
      col_stop == IF cs[2] < 0 THEN cols + cs[2] ELSE cs[2]
  IN IndexColLoop(rows, cols, row_start, row_stop, rs[3], col_stop, cs[3],
                  col_start, 0, <<>>)

\* setFromTriplets on a triplet outside the matrix is undefined: Eigen's
\* eigen_assert aborts when assertions are compiled in (eigen_debug), and
\* otherwise the write lands outside the matrix, which keeps the entries
\* that are inside it.  An abort is rendered as the empty vector.
get_index_coefficients(expr, eigen_debug) ==
  LET rows == size(expr.args[1])[1]
      cols == size(expr.args[1])[2]
      n == dim(expr)
      tripletList == IndexTriplets(expr)
      Inside(t) == t[1] < n /\ t[2] < rows * cols
  IN IF n = 0 \/ rows * cols = 0 THEN <<sparse_matrix(n, rows * cols, <<>>)>>
     ELSE IF \A k \in 1 .. Len(tripletList) : Inside(tripletList[k])
          THEN <<sparse_matrix(n, rows * cols, tripletList)>>
          ELSE IF eigen_debug THEN <<>>
               ELSE <<sparse_matrix(n, rows * cols, SelectSeq(tripletList, Inside))>>

kCoefficientTypes ==
  {"ADD", "DIAG_MAT", "DIAG_VEC", "HSTACK", "INDEX", "NEG", "RESHAPE",
   "SUM_ENTRIES", "TRANSPOSE", "VSTACK"}

kCoefficientFunctions(expr, eigen_debug) ==
  CASE expr.type = "ADD" -> get_add_coefficients(expr)
    [] expr.type = "DIAG_MAT" -> get_diag_mat_coefficients(expr)
    [] expr.type = "DIAG_VEC" -> get_diag_vec_coefficients(expr)
    [] expr.type = "HSTACK" -> get_hstack_coefficients(expr)
    [] expr.type = "INDEX" -> get_index_coefficients(expr, eigen_debug)
    [] expr.type = "NEG" -> get_neg_coefficients(expr)
    [] expr.type = "RESHAPE" -> get_reshape_coefficients(expr)
    [] expr.type = "SUM_ENTRIES" -> get_sum_entries_coefficients(expr)
    [] expr.type = "TRANSPOSE" -> get_transpose_coefficients(expr)
    [] expr.type = "VSTACK" -> get_vstack_coefficients(expr)

\* ------------------------------------------------------ get_coefficients
\* A call that ends in a fatal check (CHECK_EQ, CHECK, LOG(FATAL), an Eigen
\* assertion) returns nothing: ok is FALSE.  Besides the CoeffMap (map) the
\* result carries f_coeffs, the matrices built for the top node.
Fatal == [ok |-> FALSE, map |-> <<>>, f_coeffs |-> <<>>]

Returned(map, f) == [ok |-> TRUE, map |-> map, f_coeffs |-> f]

\* result += lhs*rhs
multiply_by_constant(lhs, rhs, result) ==
  IF ~result.ok \/ \E v \in DOMAIN rhs : lhs.cols # rhs[v].rows THEN Fatal
  ELSE Returned([v \in DOMAIN result.map \cup DOMAIN rhs |->
                   IF v \notin DOMAIN rhs THEN result.map[v]
                   ELSE IF v \in DOMAIN result.map
                        THEN MatAdd(result.map[v], MatMul(lhs, rhs[v]))
                        ELSE MatMul(lhs, rhs[v])],
                result.f_coeffs)

\* Lines 298-308, with both children's CoeffMaps at hand.
MulCoefficients(expr, lhs_coeffs, rhs_coeffs) ==
  IF ~lhs_coeffs.ok \/ ~rhs_coeffs.ok THEN Fatal
  ELSE IF is_constant(lhs_coeffs.map)
       THEN multiply_by_constant(
              get_left_mul_coefficients(expr, lhs_coeffs.map[kConstCoefficientId])[1],
              rhs_coeffs.map,
              Returned(<<>>, get_left_mul_coefficients(expr, lhs_coeffs.map[kConstCoefficientId])))
       ELSE IF is_constant(rhs_coeffs.map)
            THEN multiply_by_constant(
                   get_right_mul_coefficients(expr, rhs_coeffs.map[kConstCoefficientId])[1],
                   lhs_coeffs.map,
                   Returned(<<>>, get_right_mul_coefficients(expr, rhs_coeffs.map[kConstCoefficientId])))
            ELSE Fatal

\* One turn of the loop of lines 314-318, with the argument's CoeffMap at hand.
AccumulateArg(f_coeff, arg_coeffs, coeffs) ==
  IF ~arg_coeffs.ok THEN Fatal ELSE multiply_by_constant(f_coeff, arg_coeffs.map, coeffs)

RECURSIVE get_coefficients(_, _)
RECURSIVE AccumulateArgs(_, _, _, _)
\* The loop of lines 314-318 up to argument i; coeffs.f_coeffs holds f_coeffs.
AccumulateArgs(expr, i, coeffs, eigen_debug) ==
  IF i = 0 THEN coeffs
  ELSE AccumulateArg(coeffs.f_coeffs[i],
                     get_coefficients(expr.args[i], eigen_debug),
                     AccumulateArgs(expr, i - 1, coeffs, eigen_debug))

\* Lines 310-318, with the constructor's matrices at hand; an aborted
\* constructor returned none.
DispatchCoefficients(expr, f_coeffs, eigen_debug) ==
  IF Len(f_coeffs) < Len(expr.args) THEN Fatal
  ELSE AccumulateArgs(expr, Len(expr.args), Returned(<<>>, f_coeffs), eigen_debug)

get_coefficients(expr, eigen_debug) ==
  CASE expr.type = "CONST" ->
         Returned(kConstCoefficientId :> to_vector(expr.attr.data), <<>>)
    [] expr.type = "VAR" ->
         Returned(expr.attr.id :> identity(dim(expr)), <<>>)
    [] expr.type = "MUL" ->
         MulCoefficients(expr, get_coefficients(expr.args[1], eigen_debug),
                         get_coefficients(expr.args[2], eigen_debug))
    [] expr.type \in kCoefficientTypes ->
         DispatchCoefficients(expr, kCoefficientFunctions(expr, eigen_debug), eigen_debug)
    [] OTHER -> Fatal

\* -------------------------------------------------------- cone transform
\* The first identifier handed out for an epigraph variable; the variables
\* of the input use smaller ones.
kFirstEpiId == 100

epi_var(expr, id) == var(id, size(expr)[1], size(expr)[2])

scalar_epi_var(expr, id) == var(id, 1, 1)

\* What a rewrite leaves behind: the expression returned, the constraint
\* list as it stands, and how many epigraph variables were minted so far.
\* A failed CHECK_EQ returns nothing: ok is FALSE.
Rewritten(output, constraints, minted) ==
  [ok |-> TRUE, output |-> output, constraints |-> constraints, minted |-> minted]

Aborted == [ok |-> FALSE, output |-> <<>>, constraints |-> <<>>, minted |-> 0]

\* An ABS rewrite that bounds the ABS node itself instead of its argument.
transform_abs_of_node(expr, constraints, minted) ==
  Rewritten(epi_var(expr, kFirstEpiId + minted),
            constraints \o <<leq(expr, epi_var(expr, kFirstEpiId + minted)),
                             leq(neg(expr), epi_var(expr, kFirstEpiId + minted))>>,
            minted + 1)

transform_abs(expr, constraints, minted) ==
  Rewritten(epi_var(expr, kFirstEpiId + minted),
            constraints \o <<leq(expr.args[1], epi_var(expr, kFirstEpiId + minted)),
                             leq(neg(expr.args[1]), epi_var(expr, kFirstEpiId + minted))>>,
            minted + 1)

SumOf(r) == Rewritten(sum_entries(r.output), r.constraints, r.minted)

\* A P_NORM rewrite that mints a variable of its own for the sum, besides
\* the one of the ABS rewrite.
transform_p_norm_own_variable(expr, constraints, minted) ==
  IF expr.attr.p # 1 THEN Aborted
  ELSE Rewritten(scalar_epi_var(expr, kFirstEpiId + minted + 1),
                 constraints \o <<leq(expr.args[1], epi_var(expr, kFirstEpiId + minted)),
                                  leq(neg(expr.args[1]), epi_var(expr, kFirstEpiId + minted)),
                                  leq(sum_entries(epi_var(expr, kFirstEpiId + minted)),
                                      scalar_epi_var(expr, kFirstEpiId + minted + 1))>>,
                 minted + 2)

transform_p_norm(expr, constraints, minted) ==
  IF expr.attr.p # 1 THEN Aborted
  ELSE SumOf(transform_abs(expr, constraints, minted))

QuadOverLinCone(x, y, t) ==
  <<soc(vstack(<<add(y, neg(t)), mul(constant(2), x)>>), add(y, t)),
    leq(constant(0), y)>>

transform_quad_over_lin(expr, constraints, minted) ==
  Rewritten(scalar_epi_var(expr, kFirstEpiId + minted),
            constraints \o QuadOverLinCone(expr.args[1], expr.args[2],
                                           scalar_epi_var(expr, kFirstEpiId + minted)),
            minted + 1)

kTransformTypes == {"ABS", "P_NORM", "QUAD_OVER_LIN"}

kTransforms(expr, constraints, minted) ==
  CASE expr.type = "ABS" -> transform_abs(expr, constraints, minted)
    [] expr.type = "P_NORM" -> transform_p_norm(expr, constraints, minted)
    [] expr.type = "QUAD_OVER_LIN" -> transform_quad_over_lin(expr, constraints, minted)

\* Lines 61-70, with the transformed children (linear.output) at hand.
RewriteNode(expr, linear) ==
  IF ~linear.ok THEN Aborted
  ELSE IF expr.type \in kTransformTypes
       THEN kTransforms(Expression(expr.type, linear.output, expr.attr),
                        linear.constraints, linear.minted)
       ELSE Rewritten(Expression(expr.type, linear.output, expr.attr),
                      linear.constraints, linear.minted)

\* linear_args.push_back(r.output), the constraints and the count passing on.
PushArg(linear, r) ==
  IF ~r.ok THEN Aborted
  ELSE Rewritten(Append(linear.output, r.output), r.constraints, r.minted)

RECURSIVE transform_expression(_, _, _)
RECURSIVE TransformArgs(_, _, _, _)
RECURSIVE TransformArg(_, _)
TransformArg(linear, arg) ==
  IF ~linear.ok THEN Aborted
  ELSE PushArg(linear, transform_expression(arg, linear.constraints, linear.minted))

\* The loop of lines 57-59 over the first i children.
TransformArgs(args, i, constraints, minted) ==
  IF i = 0 THEN Rewritten(<<>>, constraints, minted)
  ELSE TransformArg(TransformArgs(args, i - 1, constraints, minted), args[i])

transform_expression(expr, constraints, minted) ==
  RewriteNode(expr, TransformArgs(expr.args, Len(expr.args), constraints, minted))

\* ------------------------------------------------------------------ state
VARIABLES
  expr,             \* extractor: the expression the caller built
  status,           \* "built": not yet extracted; "ok": get_coefficients
                    \* returned; "fatal": a check aborted the call
  coeffs,           \* the CoeffMap returned
  f_coeffs,         \* the matrices built for the top node of expr
  problem,          \* transformer: the Problem handed to transform
  pc,               \* where transform stands: "objective", "constraints",
                    \* "done", or "fatal" after a failed CHECK_EQ
  linear_objective, \* transform's local of that name
  constraints,      \* transform's local vector of constraints
  k,                \* index of the next constraint of problem to transform
  minted            \* epigraph variables minted so far

extractorVars == <<expr, status, coeffs, f_coeffs>>

transformVars == <<problem, pc, linear_objective, constraints, k, minted>>

vars == <<expr, status, coeffs, f_coeffs, problem, pc, linear_objective, constraints, k, minted>>

NoProblem == [sense |-> "MINIMIZE", objective |-> constant(0), constraints |-> <<>>]

TransformIdle ==
  /\ problem = NoProblem
  /\ pc = "idle"
  /\ linear_objective = constant(0)
  /\ constraints = <<>>
  /\ k = 0
  /\ minted = 0

ExtractorIdle ==
  /\ expr = constant(0)
  /\ status = "idle"
  /\ coeffs = <<>>
  /\ f_coeffs = <<>>

\* ------------------------------------------------- inputs of the extractor
RowMajor(r, c, first) == Mat(r, c, [p \in Cells(r, c) |-> first + p[1] * c + p[2]])

\* x0: (2,1), x1: (2,2), x3: (1,1)
Variables == {var(0, 2, 1), var(1, 2, 2), var(3, 1, 1)}

\* 2, [[1,2],[3,4]], [[3],[4]]
Constants == {constant(2), const(RowMajor(2, 2, 1)), const(RowMajor(2, 1, 3))}

Leaves == Variables \cup Constants

\* The second operand of a binary node.
Operands == {var(0, 2, 1), constant(2), const(RowMajor(2, 2, 1)), const(RowMajor(2, 1, 3))}

\* A variable and a constant of every shape up to MaxSide x MaxSide; the
\* variable of shape (r, c) has the identifier 10*r + c.
TransposeLeaves ==
  UNION {{var(10 * r + c, r, c), const(RowMajor(r, c, 1))} : r \in 1 .. MaxSide, c \in 1 .. MaxSide}

RECURSIVE Depth(_)
RECURSIVE MaxArgDepth(_, _)
MaxArgDepth(args, i) ==
  IF i = 0 THEN 0
  ELSE LET d == Depth(args[i])
           m == MaxArgDepth(args, i - 1)
       IN IF d > m THEN d ELSE m

Depth(e) == IF Len(e.args) = 0 THEN 0 ELSE 1 + MaxArgDepth(e.args, Len(e.args))

FullSlice(n) == <<0, n, 1>>

\* The keys <<row slice, column slice>> tried on an argument of shape
\* (rows, cols): every second row; the rows backward (stop before the first
\* index, written -rows-1); the rows backward from the last down to, but
\* excluding, row 0; the columns backward; no column at all.
IndexKeys(shape) ==
  LET rows == shape[1]
      cols == shape[2]
  IN {<<<<0, rows, 2>>, FullSlice(cols)>>,
      <<<<-1, 0 - rows - 1, -1>>, FullSlice(cols)>>,
      <<<<-1, 0, -1>>, FullSlice(cols)>>,
      <<FullSlice(rows), <<cols - 1, 0 - cols - 1, -1>>>>,
      <<FullSlice(rows), <<0, 0, 1>>>>}

IsScalar(shape) == shape[1] * shape[2] = 1

AddShapes(s1, s2) == s1 = s2 \/ IsScalar(s1) \/ IsScalar(s2)

MulShapes(s1, s2) == s1[2] = s2[1] \/ IsScalar(s1) \/ IsScalar(s2)

\* ------------------------------------------------ actions of the extractor
\* The caller builds a node e over the last expression once that one was
\* extracted, while the bound on nesting allows it.
Build(e) ==
  /\ status = "ok"
  /\ Depth(expr) < MaxDepth
  /\ expr' = e
  /\ status' = "built"
  /\ coeffs' = <<>>
  /\ f_coeffs' = <<>>
  /\ UNCHANGED transformVars

BuildNeg == Build(neg(expr))

BuildSumEntries == Build(sum_entries(expr))

BuildTranspose == Build(transpose(expr))

BuildReshape ==
  \E r \in 1 .. dim(expr) : dim(expr) % r = 0 /\ Build(reshape(expr, r, dim(expr) \div r))

BuildDiagVec ==
  size(expr)[2] = 1 /\ size(expr)[1] * size(expr)[1] <= MaxDim /\ Build(diag_vec(expr))

BuildDiagMat == size(expr)[1] = size(expr)[2] /\ Build(diag_mat(expr))

BuildIndex == \E keys \in IndexKeys(size(expr)) : Build(index(expr, keys[1], keys[2]))

BuildAdd ==
  \E leaf \in Operands : AddShapes(size(expr), size(leaf)) /\ Build(add(expr, leaf))

BuildMulLeft ==
  \E leaf \in Operands :
    /\ MulShapes(size(leaf), size(expr))
    /\ dim(mul(leaf, expr)) <= MaxDim
    /\ Build(mul(leaf, expr))

BuildMulRight ==
  \E leaf \in Operands :
    /\ MulShapes(size(expr), size(leaf))
    /\ dim(mul(expr, leaf)) <= MaxDim
    /\ Build(mul(expr, leaf))

BuildHstack ==
  \E leaf \in Operands :
    /\ size(leaf)[1] = size(expr)[1]
    /\ dim(expr) + dim(leaf) <= MaxDim
    /\ Build(hstack(<<expr, leaf>>))

BuildVstack ==
  \E leaf \in Operands :
    /\ size(leaf)[2] = size(expr)[2]
    /\ dim(expr) + dim(leaf) <= MaxDim
    /\ Build(vstack(<<expr, leaf>>))

Extracted(r) ==
  /\ status' = IF r.ok THEN "ok" ELSE "fatal"
  /\ coeffs' = r.map
  /\ f_coeffs' = r.f_coeffs
  /\ UNCHANGED expr
  /\ UNCHANGED transformVars

\* One call get_coefficients(expr), in a build with or without Eigen's assertions.
GetCoefficients ==
  /\ status = "built"
  /\ \E eigen_debug \in BOOLEAN : Extracted(get_coefficients(expr, eigen_debug))

InitCoeff ==
  /\ expr \in Leaves
  /\ status = "built"
  /\ coeffs = <<>>
  /\ f_coeffs = <<>>
  /\ TransformIdle

NextCoeff ==
  \/ GetCoefficients
  \/ BuildNeg
  \/ BuildSumEntries
  \/ BuildTranspose
  \/ BuildReshape
  \/ BuildDiagVec
  \/ BuildDiagMat
  \/ BuildIndex
  \/ BuildAdd
  \/ BuildMulLeft
  \/ BuildMulRight
  \/ BuildHstack
  \/ BuildVstack

\* get_coefficients over every nesting of the affine node types.
SpecCoeff == InitCoeff /\ [][NextCoeff]_vars

InitTranspose ==
  /\ expr \in TransposeLeaves
  /\ status = "built"
  /\ coeffs = <<>>
  /\ f_coeffs = <<>>
  /\ TransformIdle

NextTranspose ==
  \/ GetCoefficients
  \/ BuildTranspose

\* get_coefficients over transposes of leaves of every small shape.
SpecTranspose == InitTranspose /\ [][NextTranspose]_vars

\* ----------------------------------------------- inputs of the transformer
\* x: (2,1), y: (1,1)
ConeX == var(0, 2, 1)

ConeY == var(1, 1, 1)

\* The nodes the caller puts on top of e.
ConeNodes(e) ==
  {abs(e), p_norm(e, 1), p_norm(e, 2), quad_over_lin(e, ConeY), sum_entries(e),
   add(e, abs(ConeX))}

RECURSIVE ConeExprs(_)
ConeExprs(d) ==
  IF d = 0 THEN {ConeX, ConeY}
  ELSE ConeExprs(d - 1) \cup UNION {ConeNodes(e) : e \in ConeExprs(d - 1)}

ConeConstraints ==
  {leq(abs(ConeX), ConeY), leq(quad_over_lin(ConeX, ConeY), ConeY),
   leq(p_norm(abs(ConeX), 1), constant(2)), soc(ConeX, ConeY)}

RECURSIVE ConstraintLists(_)
ConstraintLists(n) ==
  IF n = 0 THEN {<<>>}
  ELSE ConstraintLists(n - 1)
       \cup {Append(l, c) : l \in {m \in ConstraintLists(n - 1) : Len(m) = n - 1},
                            c \in ConeConstraints}

Problems ==
  {[sense |-> "MINIMIZE", objective |-> o, constraints |-> cs] :
     o \in ConeExprs(MaxDepth), cs \in ConstraintLists(MaxConstraints)}

\* --------------------------------------------- actions of the transformer
\* Line 75, with the result of transform_expression at hand.
ObjectiveTransformed(r) ==
  /\ pc' = IF r.ok THEN "constraints" ELSE "fatal"
  /\ linear_objective' = IF r.ok THEN r.output ELSE linear_objective
  /\ constraints' = r.constraints
  /\ minted' = r.minted
  /\ UNCHANGED <<problem, k>>
  /\ UNCHANGED extractorVars

TransformObjective ==
  /\ pc = "objective"
  /\ ObjectiveTransformed(transform_expression(problem.objective, constraints, minted))

\* Lines 78-79, with the result of transform_expression at hand.
ConstraintTransformed(r) ==
  /\ pc' = IF r.ok THEN "constraints" ELSE "fatal"
  /\ constraints' = IF r.ok THEN Append(r.constraints, r.output) ELSE r.constraints
  /\ minted' = r.minted
  /\ k' = k + 1
  /\ UNCHANGED <<problem, linear_objective>>
  /\ UNCHANGED extractorVars

\* One turn of the loop of line 77; k is 1-based.
TransformConstraint ==
  /\ pc = "constraints"
  /\ k <= Len(problem.constraints)
  /\ ConstraintTransformed(transform_expression(problem.constraints[k], constraints, minted))

\* Line 81: the Problem returned is {problem.sense, linear_objective, constraints}.
Return ==
  /\ pc = "constraints"
  /\ k > Len(problem.constraints)
  /\ pc' = "done"
  /\ UNCHANGED <<problem, linear_objective, constraints, k, minted>>
  /\ UNCHANGED extractorVars

InitCone ==
  /\ problem \in Problems
  /\ pc = "objective"
  /\ linear_objective = constant(0)
  /\ constraints = <<>>
  /\ k = 1
  /\ minted = 0
  /\ ExtractorIdle

NextCone ==
  \/ TransformObjective
  \/ TransformConstraint
  \/ Return

\* LinearConeTransform::transform over every small Problem.
SpecCone == InitCone /\ [][NextCone]_vars

\* ------------------------------------------------- vocabulary of the claims
\* The n*r x n*c block-diagonal matrix made of n copies of B (r x c).
BlockDiag(B, n) ==
  Mat(n * B.rows, n * B.cols,
      [p \in Cells(n * B.rows, n * B.cols) |->
         IF p[1] \div B.rows = p[2] \div B.cols
         THEN B.val[<<p[1] % B.rows, p[2] % B.cols>>] ELSE 0])

\* The c*m x r*m matrix carrying B[i,j]*I_m at rows [j*m, j*m+m) and columns
\* [i*m, i*m+m), for B of shape (r, c).
RightBlocks(B, m) ==
  Mat(B.cols * m, B.rows * m,
      [p \in Cells(B.cols * m, B.rows * m) |->
         IF p[1] % m = p[2] % m THEN B.val[<<p[2] \div m, p[1] \div m>>] ELSE 0])

Scaled(s, A) == Mat(A.rows, A.cols, [p \in Cells(A.rows, A.cols) |-> s * A.val[p]])

TransposeOf(M) == Mat(M.cols, M.rows, [p \in Cells(M.cols, M.rows) |-> M.val[<<p[2], p[1]>>]])

\* The unit matrices of shape (r, c), which span every r x c matrix, and one
\* matrix with pairwise different entries.
TestMatrices(r, c) ==
  {Mat(r, c, [p \in Cells(r, c) |-> IF p = q THEN 1 ELSE 0]) : q \in Cells(r, c)}
    \cup {RowMajor(r, c, 1)}

\* The matrix with a 1 at (RowOf(i, j), ColOf(i, j)) for (i, j) in [0,r) x [0,c).
Permutation(r, c, RowOf(_, _), ColOf(_, _)) ==
  Mat(r * c, r * c,
      [p \in Cells(r * c, r * c) |->
         IF \E i \in Idx(r), j \in Idx(c) : p = <<RowOf(i, j), ColOf(i, j)>> THEN 1 ELSE 0])

\* The pairs <<row, col>> an INDEX selects, column slice outermost.
SelectedPairs(rowsel, colsel) ==
  [t \in 1 .. Len(rowsel) * Len(colsel) |->
     <<rowsel[((t - 1) % Len(rowsel)) + 1], colsel[((t - 1) \div Len(rowsel)) + 1]>>]

\* The (dim(e), R*C) selection matrix of an INDEX node e over shape (R, C).
SelectionMatrix(e) ==
  LET R == size(e.args[1])[1]
      C == size(e.args[1])[2]
      pairs == SelectedPairs(SliceSelection(e.attr.keys[1], R),
                             SliceSelection(e.attr.keys[2], C))
  IN Mat(Len(pairs), R * C,
         [p \in Cells(Len(pairs), R * C) |->
            IF p[2] = pairs[p[1] + 1][2] * R + pairs[p[1] + 1][1] THEN 1 ELSE 0])

RECURSIVE VarShapes(_)
\* The <<id, dim>> of every VAR node of e.
VarShapes(e) ==
  IF e.type = "VAR" THEN {<<e.attr.id, dim(e)>>}
  ELSE UNION {VarShapes(e.args[i]) : i \in 1 .. Len(e.args)}

RECURSIVE IsAffine(_)
\* No ABS, P_NORM or QUAD_OVER_LIN node anywhere in e.
IsAffine(e) ==
  e.type \notin kTransformTypes /\ \A i \in 1 .. Len(e.args) : IsAffine(e.args[i])

RECURSIVE AllPNormOne(_)
AllPNormOne(e) ==
  (e.type = "P_NORM" => e.attr.p = 1) /\ \A i \in 1 .. Len(e.args) : AllPNormOne(e.args[i])

RECURSIVE Atoms(_)
RECURSIVE AtomsOfArgs(_, _)
AtomsOfArgs(args, i) == IF i = 0 THEN 0 ELSE Atoms(args[i]) + AtomsOfArgs(args, i - 1)

\* The number of ABS, P_NORM and QUAD_OVER_LIN nodes of e.
Atoms(e) == (IF e.type \in kTransformTypes THEN 1 ELSE 0) + AtomsOfArgs(e.args, Len(e.args))

ProblemPNormOne ==
  AllPNormOne(problem.objective)
    /\ \A i \in 1 .. Len(problem.constraints) : AllPNormOne(problem.constraints[i])

\* ------------------------------------------------------------------ claims
\* C1: for MUL(L, X) with L a constant B of shape (r, c) and X of shape
\* (c, n), get_coefficients raises no fatal error and returns, under every key
\* v of get_coefficients(X), BlockDiag(B, n) * coeffs_X[v].
C1_Expected(B, n, cx) ==
  cx.ok => /\ status = "ok"
           /\ coeffs = [v \in DOMAIN cx.map |-> MatMul(BlockDiag(B, n), cx.map[v])]

C1_LeftMulIsBlockDiagonal ==
  (/\ status \in {"ok", "fatal"}
   /\ expr.type = "MUL"
   /\ expr.args[1].type = "CONST"
   /\ size(expr.args[1])[2] = size(expr.args[2])[1])
  => C1_Expected(expr.args[1].attr.data, size(expr.args[2])[2],
                 get_coefficients(expr.args[2], TRUE))

\* C7: for MUL(X, R) with X non-constant of shape (m, r) and R a constant B
\* of shape (r, c), get_coefficients raises no fatal error and returns, under
\* every key v of get_coefficients(X), RightBlocks(B, m) * coeffs_X[v].
C7_Expected(B, m, cx) ==
  (cx.ok /\ ~is_constant(cx.map))
  => /\ status = "ok"
     /\ coeffs = [v \in DOMAIN cx.map |-> MatMul(RightBlocks(B, m), cx.map[v])]

C7_RightMulIsBlockwise ==
  (/\ status \in {"ok", "fatal"}
   /\ expr.type = "MUL"
   /\ expr.args[2].type = "CONST"
   /\ size(expr.args[1])[2] = size(expr.args[2])[1])
  => C7_Expected(expr.args[2].attr.data, size(expr.args[1])[1],
                 get_coefficients(expr.args[1], TRUE))

\* C10: for MUL(CONST(s), X) with s of shape (1,1) and X affine of any
\* shape, get_coefficients raises no fatal error and returns, under every key
\* v of get_coefficients(X), s * coeffs_X[v], a matrix of dim(X) rows.
C10_Expected(s, n, cx) ==
  cx.ok => /\ status = "ok"
           /\ coeffs = [v \in DOMAIN cx.map |-> Scaled(s, cx.map[v])]
           /\ \A v \in DOMAIN coeffs : coeffs[v].rows = n

C10_ScalarMulIsAccepted ==
  (/\ status \in {"ok", "fatal"}
   /\ expr.type = "MUL"
   /\ expr.args[1].type = "CONST"
   /\ size(expr.args[1]) = <<1, 1>>)
  => C10_Expected(expr.args[1].attr.data.val[<<0, 0>>], dim(expr.args[2]),
                  get_coefficients(expr.args[2], TRUE))

\* C9: for INDEX over an extractable argument of shape (R, C) with nonzero
\* steps, the constructor returns the (dim(expr), R*C) matrix whose row k has
\* its only nonzero, a 1, at column col*R + row of the k-th selected pair,
\* the rows and columns selected being those strictly before stop.
C9_Expected(cx) ==
  cx.ok => /\ status = "ok"
           /\ f_coeffs = <<SelectionMatrix(expr)>>
           /\ f_coeffs[1].rows = dim(expr)
           /\ NNZ(f_coeffs[1]) = dim(expr)

C9_IndexSelectsBeforeStop ==
  (/\ status \in {"ok", "fatal"}
   /\ expr.type = "INDEX"
   /\ expr.attr.keys[1][3] # 0
   /\ expr.attr.keys[2][3] # 0)
  => C9_Expected(get_coefficients(expr.args[1], TRUE))

\* C5: whenever get_coefficients(e) returns, every matrix of the CoeffMap has
\* dim(e) rows, the matrix under a variable id v has dim(v) columns, and the
\* matrix under the constant id has one column.
C5_CoeffMapShapes ==
  status = "ok"
  => \A v \in DOMAIN coeffs :
       /\ coeffs[v].rows = dim(expr)
       /\ IF v = kConstCoefficientId THEN coeffs[v].cols = 1
          ELSE <<v, coeffs[v].cols>> \in VarShapes(expr)

\* C5 witness: an ADD with scalar promotion over a MUL, extracted, with a
\* variable and the constant among the keys.
C5_Witness ==
  /\ status = "ok"
  /\ expr.type = "ADD"
  /\ expr.args[1].type = "MUL"
  /\ dim(expr.args[2]) = 1
  /\ dim(expr) > 1
  /\ kConstCoefficientId \in DOMAIN coeffs
  /\ Cardinality(DOMAIN coeffs) = 2

\* C4: the matrix A of TRANSPOSE over shape (r, c) satisfies
\* A * vec(M) = vec(M^T) for every r x c matrix M, and the product of the
\* matrices of TRANSPOSE(TRANSPOSE(x)) is the identity of size dim(x), so
\* that TRANSPOSE(TRANSPOSE(x)) has the coefficients of x.
C4_OuterTimesInner(inner, cx) ==
  /\ MatMul(f_coeffs[1], inner[1]) = identity(dim(expr))
  /\ coeffs = cx.map

C4_TransposeVectorizes ==
  (status = "ok" /\ expr.type = "TRANSPOSE")
  => /\ \A M \in TestMatrices(size(expr.args[1])[1], size(expr.args[1])[2]) :
          MatMul(f_coeffs[1], to_vector(M)) = to_vector(TransposeOf(M))
     /\ expr.args[1].type = "TRANSPOSE"
          => C4_OuterTimesInner(get_transpose_coefficients(expr.args[1]),
                                get_coefficients(expr.args[1].args[1], TRUE))

\* C4 witness: the transpose of the transpose of a 2 x 3 variable, extracted.
C4_Witness ==
  /\ status = "ok"
  /\ expr.type = "TRANSPOSE"
  /\ expr.args[1].type = "TRANSPOSE"
  /\ expr.args[1].args[1].type = "VAR"
  /\ size(expr) = <<2, 3>>

\* C8 as stated: for TRANSPOSE over shape (r, c) the matrix has a 1 exactly
\* at (r*j + i, i*c + j) for (i, j) in [0,r) x [0,c).
C8_TransposeEntriesAsStated ==
  (status = "ok" /\ expr.type = "TRANSPOSE")
  => LET r == size(expr.args[1])[1]
         c == size(expr.args[1])[2]
     IN f_coeffs[1] = Permutation(r, c, LAMBDA i, j : r * j + i, LAMBDA i, j : i * c + j)

\* C8 amended: for TRANSPOSE over shape (r, c) the matrix has a 1 exactly at
\* (i*c + j, r*j + i) for (i, j) in [0,r) x [0,c) and is zero elsewhere.
C8_TransposeEntries ==
  (status = "ok" /\ expr.type = "TRANSPOSE")
  => LET r == size(expr.args[1])[1]
         c == size(expr.args[1])[2]
     IN f_coeffs[1] = Permutation(r, c, LAMBDA i, j : i * c + j, LAMBDA i, j : r * j + i)

\* C8 witness: the transpose of a 2 x 3 leaf, extracted.
C8_Witness ==
  /\ status = "ok"
  /\ expr.type = "TRANSPOSE"
  /\ Len(expr.args[1].args) = 0
  /\ size(expr.args[1]) = <<2, 3>>

\* C2: the transform of P_NORM(x) with p = 1 over an affine x gives what the
\* transform of SUM_ENTRIES(ABS(x)) gives: SUM_ENTRIES(t) with t a fresh
\* variable of the shape of x, and the two constraints x <= t, NEG(x) <= t.
C2_Expected(x, r) ==
  /\ linear_objective = r.output
  /\ constraints = r.constraints
  /\ linear_objective.type = "SUM_ENTRIES"
  /\ linear_objective.args[1].type = "VAR"
  /\ size(linear_objective.args[1]) = size(x)
  /\ constraints = <<leq(x, linear_objective.args[1]), leq(neg(x), linear_objective.args[1])>>

C2_PNormIsSumOfAbs ==
  (/\ pc = "constraints"
   /\ k = 1
   /\ problem.objective.type = "P_NORM"
   /\ problem.objective.attr.p = 1
   /\ IsAffine(problem.objective.args[1]))
  => C2_Expected(problem.objective.args[1],
                 transform_expression(sum_entries(abs(problem.objective.args[1])), <<>>, 0))

\* C3: when every P_NORM has p = 1, the Problem returned by transform has no
\* ABS, P_NORM or QUAD_OVER_LIN node in its objective or in any constraint.
C3_OutputIsAffine ==
  (pc = "done" /\ ProblemPNormOne)
  => /\ IsAffine(linear_objective)
     /\ \A i \in 1 .. Len(constraints) : IsAffine(constraints[i])

\* C3 witness: a returned Problem whose input nested one nonlinear atom in
\* another in the objective and had a nonlinear atom in a constraint.
C3_Witness ==
  /\ pc = "done"
  /\ problem.objective.type = "ABS"
  /\ problem.objective.args[1].type = "QUAD_OVER_LIN"
  /\ Len(problem.constraints) = 1
  /\ ~IsAffine(problem.constraints[1])

\* C6: when every P_NORM has p = 1, one run of transform mints exactly as
\* many epigraph variables as the objective and the constraints of the input
\* have ABS, P_NORM and QUAD_OVER_LIN nodes.
C6_OneVariablePerAtom ==
  (pc = "done" /\ ProblemPNormOne)
  => minted = Atoms(problem.objective) + AtomsOfArgs(problem.constraints, Len(problem.constraints))

\* C6 witness: a returned Problem whose input had a P_NORM over an ABS in
\* the objective and three nonlinear atoms or more in all.
C6_Witness ==
  /\ pc = "done"
  /\ problem.objective.type = "P_NORM"
  /\ problem.objective.args[1].type = "ABS"
  /\ minted >= 3

====
